---- MODULE Spec2Model ----
(***************************************************************************)
(* A model of ClaudiaClient (claudia-server/examples/python/client.py):    *)
(* the async context (__aenter__/__aexit__), connect_websocket with its    *)
(* receive loop, and the two-level dispatcher handle_message /             *)
(* handle_claude_stream.  Every print of the source is an entry of stdout. *)
(*                                                                         *)
(* Scheduling is asyncio's: a coroutine runs without interruption between  *)
(* two awaits that suspend, so each action below is one such slice.  The   *)
(* handlers never suspend (they only print), hence one received frame is   *)
(* decoded and dispatched inside a single action.                          *)
(***************************************************************************)
EXTENDS Integers, Sequences, FiniteSets, TLC

(***************************************************************************)
(* Bounds of the model.                                                    *)
(***************************************************************************)
\* frames the server sends in one run of Spec, over all connections
MaxFrames == 2
\* frames the server sends in one run of SpecLoop
MaxLoopFrames == 3
\* length of the frame sequence drawn by SpecStream
MaxLen == 4
\* length of the envelope sequence drawn by SpecDispatch
MaxEnv == 2
\* control-plane calls made in one run of SpecControl
MaxCalls == 2
\* characters after the scheme separator in the URLs drawn by SpecUrl
MaxTail == 4

(***************************************************************************)
(* JSON values as json.loads returns them, tagged by their Python type.    *)
(***************************************************************************)
Str(s) == [k |-> "str", v |-> s]
None == [k |-> "null"]
Arr == [k |-> "arr"]
Obj(f) == [k |-> "obj", f |-> f]
\* the argument of a print that interpolates nothing
NoArg == [k |-> "noarg"]

IsDict(v) == v.k = "obj"
Has(v, key) == IsDict(v) /\ key \in DOMAIN v.f
\* dict.get(key, default)
Get(v, key, default) == IF key \in DOMAIN v.f THEN v.f[key] ELSE default
\* Python truth value: '' , None, [] and {} are false
Truthy(v) ==
    CASE v.k = "str" -> v.v # ""
      [] v.k = "obj" -> DOMAIN v.f # {}
      [] OTHER -> FALSE

(***************************************************************************)
(* Printed lines.  A session event is a line printed by a handler; the two *)
(* log lines are printed by the except clauses of the receive loop.        *)
(***************************************************************************)
Ev(kind, arg) == [ev |-> kind, arg |-> arg]
SessionKinds ==
    {"status", "terminal_error", "unknown", "started", "incremental",
     "complete", "response_error", "generic"}
Returned(out) == [raised |-> FALSE, out |-> out]
Raised == [raised |-> TRUE, out |-> <<>>]

(***************************************************************************)
(* handle_claude_stream(data)                                              *)
(***************************************************************************)
\* variant: the partial branch prints with print's default line end
HandleClaudeStreamNewline(data) ==
    IF ~IsDict(data) THEN Raised
    ELSE LET stream_type == Get(data, "type", None) IN
      CASE stream_type = Str("start") ->
             Returned(<<Ev("started", NoArg)>>)
        [] stream_type = Str("partial") ->
             LET content == Get(data, "content", Str("")) IN
             IF Truthy(content)
             THEN Returned(<<Ev("incremental", Str(content.v \o "\n"))>>)
             ELSE Returned(<<>>)
        [] stream_type = Str("complete") ->
             Returned(<<Ev("complete", NoArg)>>)
        [] stream_type = Str("error") ->
             Returned(<<Ev("response_error", Get(data, "content", Str("")))>>)
        [] OTHER ->
             Returned(<<Ev("generic", Get(data, "content", data))>>)

\* variant: the error branch falls into the fallback branch
HandleClaudeStreamNoErrorArm(data) ==
    IF ~IsDict(data) THEN Raised
    ELSE LET stream_type == Get(data, "type", None) IN
      CASE stream_type = Str("start") ->
             Returned(<<Ev("started", NoArg)>>)
        [] stream_type = Str("partial") ->
             LET content == Get(data, "content", Str("")) IN
             IF Truthy(content)
             THEN Returned(<<Ev("incremental", content)>>)
             ELSE Returned(<<>>)
        [] stream_type = Str("complete") ->
             Returned(<<Ev("complete", NoArg)>>)
        [] OTHER ->
             Returned(<<Ev("generic", Get(data, "content", data))>>)

HandleClaudeStream(data) ==
    IF ~IsDict(data) THEN Raised   \* data.get: AttributeError
    ELSE LET stream_type == Get(data, "type", None) IN
      CASE stream_type = Str("start") ->
             Returned(<<Ev("started", NoArg)>>)
        [] stream_type = Str("partial") ->
             LET content == Get(data, "content", Str("")) IN
             IF Truthy(content)
             THEN Returned(<<Ev("incremental", content)>>)
             ELSE Returned(<<>>)
        [] stream_type = Str("complete") ->
             Returned(<<Ev("complete", NoArg)>>)
        [] stream_type = Str("error") ->
             Returned(<<Ev("response_error", Get(data, "content", Str("")))>>)
        [] OTHER ->
             Returned(<<Ev("generic", Get(data, "content", data))>>)

(***************************************************************************)
(* handle_message(message)                                                 *)
(***************************************************************************)
\* message['data'][field], printed as event kind; KeyError / TypeError else
PrintDataField(message, field, kind) ==
    IF Has(message, "data") /\ Has(message.f["data"], field)
    THEN Returned(<<Ev(kind, message.f["data"].f[field])>>)
    ELSE Raised

\* variant: the error arm prints the field of the status arm
HandleMessageErrorAsStatus(message) ==
    IF ~IsDict(message) THEN Raised
    ELSE LET message_type == Get(message, "type", None) IN
      CASE message_type = Str("status") ->
             PrintDataField(message, "status", "status")
        [] message_type = Str("claude_stream") ->
             IF Has(message, "data")
             THEN HandleClaudeStream(message.f["data"])
             ELSE Raised
        [] message_type = Str("error") ->
             PrintDataField(message, "status", "terminal_error")
        [] OTHER ->
             Returned(<<Ev("unknown", message_type)>>)

\* variant: the fallback arm raises instead of printing
HandleMessageRaiseUnknown(message) ==
    IF ~IsDict(message) THEN Raised
    ELSE LET message_type == Get(message, "type", None) IN
      CASE message_type = Str("status") ->
             PrintDataField(message, "status", "status")
        [] message_type = Str("claude_stream") ->
             IF Has(message, "data")
             THEN HandleClaudeStream(message.f["data"])
             ELSE Raised
        [] message_type = Str("error") ->
             PrintDataField(message, "error", "terminal_error")
        [] OTHER ->
             Raised

HandleMessage(message) ==
    IF ~IsDict(message) THEN Raised   \* message.get: AttributeError
    ELSE LET message_type == Get(message, "type", None) IN
      CASE message_type = Str("status") ->
             PrintDataField(message, "status", "status")
        [] message_type = Str("claude_stream") ->
             IF Has(message, "data")
             THEN HandleClaudeStream(message.f["data"])
             ELSE Raised   \* message['data']: KeyError
        [] message_type = Str("error") ->
             PrintDataField(message, "error", "terminal_error")
        [] OTHER ->
             Returned(<<Ev("unknown", message_type)>>)

(***************************************************************************)
(* Frames on the wire: a text frame either is a JSON document or is not.   *)
(***************************************************************************)
Json(v) == [json |-> TRUE, val |-> v]
Garbage == [json |-> FALSE, val |-> None]

\* kinds of frame
IsEnvelope(fr, type) ==
    fr.json /\ IsDict(fr.val) /\ Get(fr.val, "type", None) = Str(type)
IsStreamEnvelope(fr) == IsEnvelope(fr, "claude_stream") /\ Has(fr.val, "data")
StreamData(fr) == fr.val.f["data"]
IsPhase(fr, name) ==
    IsStreamEnvelope(fr) /\ IsDict(StreamData(fr))
      /\ Get(StreamData(fr), "type", None) = Str(name)
IsTerminal(fr) == IsPhase(fr, "complete") \/ IsPhase(fr, "error")

\* variant: no except clause for json.JSONDecodeError, and the general
\* clause does not cover it
LoopBodyNoDecodeCatch(frame) ==
    IF ~frame.json
    THEN [out |-> <<>>, escaped |-> TRUE]
    ELSE LET r == HandleMessage(frame.val) IN
         IF r.raised
         THEN [out |-> r.out \o <<Ev("log_handler_error", NoArg)>>,
               escaped |-> FALSE]
         ELSE [out |-> r.out, escaped |-> FALSE]

\* variant: no except clause for Exception
LoopBodyNoHandlerCatch(frame) ==
    IF ~frame.json
    THEN [out |-> <<Ev("log_parse_error", NoArg)>>, escaped |-> FALSE]
    ELSE LET r == HandleMessage(frame.val) IN
         IF r.raised
         THEN [out |-> r.out, escaped |-> TRUE]
         ELSE [out |-> r.out, escaped |-> FALSE]

\* The body of the receive loop for one frame: json.loads, handle_message
\* and the two except clauses.  escaped: an exception leaves the loop.
LoopBody(frame) ==
    IF ~frame.json
    THEN [out |-> <<Ev("log_parse_error", NoArg)>>, escaped |-> FALSE]
    ELSE LET r == HandleMessage(frame.val) IN
         IF r.raised
         THEN [out |-> r.out \o <<Ev("log_handler_error", NoArg)>>,
               escaped |-> FALSE]
         ELSE [out |-> r.out, escaped |-> FALSE]

(***************************************************************************)
(* __init__: the base URL and the stream endpoint derived from it.  URLs   *)
(* are sequences of characters.                                            *)
(***************************************************************************)
HttpChars == <<"h", "t", "t", "p">>
WsChars == <<"w", "s">>
SlashWs == <<"/", "w", "s">>
SchemeSep == <<":", "/", "/">>
\* 'http://localhost:3000'
DefaultUrl ==
    HttpChars \o SchemeSep
      \o <<"l", "o", "c", "a", "l", "h", "o", "s", "t", ":", "3", "0", "0", "0">>

RECURSIVE Replace(_, _, _)
\* str.replace(old, new): every non-overlapping occurrence, left to right
Replace(str, old, new) ==
    IF Len(str) < Len(old) THEN str
    ELSE IF SubSeq(str, 1, Len(old)) = old
         THEN new \o Replace(SubSeq(str, Len(old) + 1, Len(str)), old, new)
         ELSE <<Head(str)>> \o Replace(Tail(str), old, new)

\* self.server_url.replace('http', 'ws') + '/ws'
WsUrl(url) == Replace(url, HttpChars, WsChars) \o SlashWs

\* the environment: CLAUDIA_SERVER_URL set or not
EnvUnset == [set |-> FALSE, val |-> <<>>]
EnvSet(url) == [set |-> TRUE, val |-> url]
\* server_url or os.environ.get('CLAUDIA_SERVER_URL', default); the empty
\* argument stands for None and for ''
ResolveUrl(arg, env) ==
    IF arg # <<>> THEN arg ELSE IF env.set THEN env.val ELSE DefaultUrl

(***************************************************************************)
(* The control plane: the value a call returns or the exception it raises. *)
(***************************************************************************)
Bool(b) == [k |-> "bool", b |-> b]
Ret(v) == [kind |-> "returned", exc |-> "", msg |-> "", value |-> v]
Exc(cls, m) == [kind |-> "raised", exc |-> cls, msg |-> m, value |-> None]
NoOutcome == [kind |-> "none", exc |-> "", msg |-> "", value |-> None]
NoResponse == [status |-> 0, body |-> Garbage]
NoCall == [pc |-> "idle", op |-> "none", args |-> <<>>, n |-> 0, resp |-> NoResponse]

\* str(value) inside an f-string
Format(v) ==
    CASE v.k = "str" -> v.v
      [] v.k = "null" -> "None"
      [] v.k = "arr" -> "[]"
      [] v.k = "bool" -> IF v.b THEN "True" ELSE "False"

\* v[key]: TypeError on a non-dict, KeyError on a missing key
Lookup(v, key) ==
    IF ~IsDict(v) THEN Exc("TypeError", "")
    ELSE IF key \notin DOMAIN v.f THEN Exc("KeyError", key)
    ELSE Ret(v.f[key])

\* await response.json()
BodyJson(body) == IF body.json THEN Ret(body.val) ELSE Exc("JSONDecodeError", "")

\* the four control-plane operations and their inputs
Ops == {"start_session", "get_running_sessions", "cancel_session", "check_health"}
Paths == {"/p", "/q"}
Prompts == {"hi"}
Models == {"m1", "m2"}
ArgsFor(op) ==
    CASE op = "start_session" ->
           {<<project_path, prompt, model>> :
              project_path \in Paths, prompt \in Prompts, model \in Models}
      [] op = "cancel_session" -> {<<"A">>, <<"B">>}
      [] OTHER -> {<<>>}

\* variant: prompt and model change places in the request body
RequestOfSwapped(base, op, args) ==
    CASE op = "start_session" ->
           [method |-> "POST", base |-> base, path |-> "/api/claude/execute",
            json |-> Obj([project_path |-> Str(args[1]), prompt |-> Str(args[3]),
                          model |-> Str(args[2])])]
      [] op = "get_running_sessions" ->
           [method |-> "GET", base |-> base, path |-> "/api/claude/sessions/running",
            json |-> None]
      [] op = "cancel_session" ->
           [method |-> "POST", base |-> base,
            path |-> "/api/claude/cancel/" \o args[1], json |-> None]
      [] op = "check_health" ->
           [method |-> "GET", base |-> base, path |-> "/api/status/health",
            json |-> None]

\* the request an operation hands to the session: the URL is the base URL
\* followed by the path; json is the body, None when the call passes none
RequestOf(base, op, args) ==
    CASE op = "start_session" ->
           [method |-> "POST", base |-> base, path |-> "/api/claude/execute",
            json |-> Obj([project_path |-> Str(args[1]), prompt |-> Str(args[2]),
                          model |-> Str(args[3])])]
      [] op = "get_running_sessions" ->
           [method |-> "GET", base |-> base, path |-> "/api/claude/sessions/running",
            json |-> None]
      [] op = "cancel_session" ->
           [method |-> "POST", base |-> base,
            path |-> "/api/claude/cancel/" \o args[1], json |-> None]
      [] op = "check_health" ->
           [method |-> "GET", base |-> base, path |-> "/api/status/health",
            json |-> None]

\* what the server may answer
Statuses == {200, 201, 500}
Bodies ==
    {Garbage,
     Json(Arr),
     Json(Obj([error |-> Str("E1")])),
     Json(Obj([error |-> Str("no such session")])),
     Json(Obj([message |-> Str("E1")])),
     Json(Obj([data |-> Obj([session_id |-> Str("S1")])])),
     Json(Obj([data |-> Obj([cancelled |-> Bool(TRUE)])])),
     Json(Obj([data |-> Obj([cancelled |-> Bool(FALSE)])])),
     Json(Obj([data |-> Arr]))}
Responses == {[status |-> st, body |-> b] : st \in Statuses, b \in Bodies}

\* variant: the server's error text is not put into the message
RaiseServerErrorGeneric(prefix, body) ==
    LET error == BodyJson(body) IN
    IF error.kind = "raised" THEN error
    ELSE LET e == Lookup(error.value, "error") IN
         IF e.kind = "raised" THEN e
         ELSE Exc("Exception", prefix \o "request failed")

\* error = await response.json(); raise Exception(f"{prefix}{error['error']}")
RaiseServerError(prefix, body) ==
    LET error == BodyJson(body) IN
    IF error.kind = "raised" THEN error
    ELSE LET e == Lookup(error.value, "error") IN
         IF e.kind = "raised" THEN e
         ELSE Exc("Exception", prefix \o Format(e.value))

\* result = await response.json(); return result['data']
ReturnData(body) ==
    LET result == BodyJson(body) IN
    IF result.kind = "raised" THEN result ELSE Lookup(result.value, "data")

\* result = await response.json(); return result['data'][key]
ReturnDataField(body, key) ==
    LET data == ReturnData(body) IN
    IF data.kind = "raised" THEN data ELSE Lookup(data.value, key)

\* start_session, from the response on
StartSession(resp) ==
    IF resp.status # 200
    THEN RaiseServerError("Failed to start session: ", resp.body)
    ELSE ReturnDataField(resp.body, "session_id")

\* get_running_sessions, from the response on
GetRunningSessions(resp) ==
    IF resp.status # 200
    THEN RaiseServerError("Failed to get running sessions: ", resp.body)
    ELSE ReturnData(resp.body)

\* variant: a refused cancellation is reported as False
CancelSessionFalseOnError(resp) ==
    IF resp.status # 200
    THEN Ret(Bool(FALSE))
    ELSE ReturnDataField(resp.body, "cancelled")

\* cancel_session, from the response on
CancelSession(resp) ==
    IF resp.status # 200
    THEN RaiseServerError("Failed to cancel session: ", resp.body)
    ELSE ReturnDataField(resp.body, "cancelled")

\* check_health, from the response on
CheckHealth(resp) ==
    IF resp.status # 200
    THEN Exc("Exception", "Server is not healthy")
    ELSE BodyJson(resp.body)

\* how the operation ends on the response
Finish(op, resp) ==
    CASE op = "start_session" -> StartSession(resp)
      [] op = "get_running_sessions" -> GetRunningSessions(resp)
      [] op = "cancel_session" -> CancelSession(resp)
      [] op = "check_health" -> CheckHealth(resp)

(***************************************************************************)
(* The client and its environment.                                         *)
(*                                                                         *)
(* Tasks are the coroutines that call connect_websocket on the one client. *)
(* Each makes at most one call, so the connection a call opens is named by *)
(* its task.                                                               *)
(***************************************************************************)
Tasks == {"t1", "t2"}
NoSock == "none"
SessionIds == {"A", "B"}

VARIABLES
    ctx,        \* the async context: "new", "entered", "exited"
    session,    \* self.session: "none", "open", "closed", "close_failed"
    websocket,  \* self.websocket: NoSock (None) or the connection held
    pc,         \* pc[t]: where task t is in connect_websocket
    sid,        \* sid[t]: the session_id argument of t's call
    it,         \* it[t]: the connection t's async-for iterates
    sockState,  \* "unopened", "open", "closed_ok", "closed_err"
    sent,       \* sent[s]: the frames passed to websocket.send, in order
    arrived,    \* arrived[s]: the frames the server sent, in order
    nread,      \* nread[s]: how many of them the receive loop has taken
    stdout,     \* the printed lines, each with the connection it is about
    server_url, \* self.server_url, a sequence of characters
    ws_url,     \* self.ws_url, a sequence of characters
    attempts,   \* attempts[t]: calls of websockets.connect made for t
    hcall,      \* the control-plane call in progress or last finished
    requests,   \* the HTTP requests handed to the session, in order
    outcome     \* how the last finished control-plane call ended

vars == <<ctx, session, websocket, pc, sid, it, sockState, sent, arrived,
          nread, stdout, server_url, ws_url, attempts, hcall, requests,
          outcome>>

\* the configuration and the control plane, which the stream side never
\* assigns
control == <<server_url, ws_url, hcall, requests, outcome>>
\* the stream side, which the control plane never assigns
stream == <<websocket, pc, sid, it, sockState, sent, arrived, nread, stdout,
            attempts>>

Finished == {"returned", "raised", "cancelled"}
Closed == {"closed_ok", "closed_err"}

\* variant: the subscribe message without its session_id
SubscribeMessageNoId(session_id) ==
    Json(Obj([type |-> Str("subscribe")]))

\* json.dumps(subscribe_message)
SubscribeMessage(session_id) ==
    Json(Obj([type |-> Str("subscribe"), session_id |-> Str(session_id)]))

StatusFrame == Json(Obj([type |-> Str("status"),
                         data |-> Obj([status |-> Str("running")])]))
StatusNoData == Json(Obj([type |-> Str("status")]))
StreamFrame(data) == Json(Obj([type |-> Str("claude_stream"), data |-> data]))
Phase(name) == Obj([type |-> Str(name)])
PhaseWith(name, content) == Obj([type |-> Str(name), content |-> Str(content)])

\* what the server sends in Spec
Frames == {StatusFrame, StreamFrame(Phase("complete"))}

\* what the server sends in SpecLoop
LoopFrames ==
    {Garbage, Json(Arr), StatusFrame, StatusNoData,
     Json(Obj([type |-> Str("claude_stream")])),
     StreamFrame(Phase("complete")), StreamFrame(PhaseWith("error", "boom")),
     StreamFrame(PhaseWith("partial", "ab"))}

Tag(s, out) == [i \in 1..Len(out) |-> [conn |-> s, ev |-> out[i].ev, arg |-> out[i].arg]]
TotalFrames == Len(arrived["t1"]) + Len(arrived["t2"])

Init ==
    /\ ctx = "new"
    /\ session = "none"
    /\ websocket = NoSock
    /\ pc = [t \in Tasks |-> "idle"]
    /\ sid = [t \in Tasks |-> "A"]
    /\ it = [t \in Tasks |-> NoSock]
    /\ sockState = [t \in Tasks |-> "unopened"]
    /\ sent = [t \in Tasks |-> <<>>]
    /\ arrived = [t \in Tasks |-> <<>>]
    /\ nread = [t \in Tasks |-> 0]
    /\ stdout = <<>>
    /\ server_url = DefaultUrl
    /\ ws_url = WsUrl(DefaultUrl)
    /\ attempts = [t \in Tasks |-> 0]
    /\ hcall = NoCall
    /\ requests = <<>>
    /\ outcome = NoOutcome

\* __aenter__
Aenter ==
    /\ ctx = "new"
    /\ ctx' = "entered"
    /\ session' = "open"
    /\ UNCHANGED <<websocket, pc, sid, it, sockState, sent, arrived, nread, stdout>>
    /\ UNCHANGED <<control, attempts>>

\* connect_websocket(session_id) is called and awaits websockets.connect
Call(t, session_id) ==
    /\ ctx = "entered"
    /\ pc[t] = "idle"
    /\ pc' = [pc EXCEPT ![t] = "connecting"]
    /\ sid' = [sid EXCEPT ![t] = session_id]
    /\ UNCHANGED <<ctx, session, websocket, it, sockState, sent, arrived, nread, stdout>>
    /\ attempts' = [attempts EXCEPT ![t] = @ + 1]
    /\ UNCHANGED control

\* variant: a failed websockets.connect is tried once more
ConnectFailRetry(t) ==
    /\ pc[t] = "connecting"
    /\ pc' = [pc EXCEPT ![t] = IF attempts[t] < 2 THEN "connecting" ELSE "raised"]
    /\ attempts' = [attempts EXCEPT ![t] = IF @ < 2 THEN @ + 1 ELSE @]
    /\ UNCHANGED <<ctx, session, websocket, sid, it, sockState, sent, arrived, nread, stdout>>
    /\ UNCHANGED control

\* websockets.connect raises: nothing is assigned
ConnectFail(t) ==
    /\ pc[t] = "connecting"
    /\ pc' = [pc EXCEPT ![t] = "raised"]
    /\ UNCHANGED <<ctx, session, websocket, sid, it, sockState, sent, arrived, nread, stdout>>
    /\ UNCHANGED <<control, attempts>>

\* websockets.connect returns: the assignment, the print and the call of
\* send run in one slice; the await of send may suspend
Connect(t) ==
    /\ pc[t] = "connecting"
    /\ websocket' = t
    /\ sockState' = [sockState EXCEPT ![t] = "open"]
    /\ stdout' = stdout \o Tag(t, <<Ev("connected", NoArg)>>)
    /\ sent' = [sent EXCEPT ![t] = Append(@, SubscribeMessage(sid[t]))]
    /\ pc' = [pc EXCEPT ![t] = "sending"]
    /\ UNCHANGED <<ctx, session, sid, it, arrived, nread>>
    /\ UNCHANGED <<control, attempts>>

\* the same slice when the peer has closed already: send raises
\* ConnectionClosed
ConnectPeerClosed(t) ==
    /\ pc[t] = "connecting"
    /\ websocket' = t
    /\ sockState' = [sockState EXCEPT ![t] = "closed_err"]
    /\ stdout' = stdout \o Tag(t, <<Ev("connected", NoArg)>>)
    /\ sent' = [sent EXCEPT ![t] = Append(@, SubscribeMessage(sid[t]))]
    /\ pc' = [pc EXCEPT ![t] = "raised"]
    /\ UNCHANGED <<ctx, session, sid, it, arrived, nread>>
    /\ UNCHANGED <<control, attempts>>

\* send has returned; `async for message in self.websocket` reads the field
\* now.  A connection another task is receiving on refuses a second recv.
EnterLoop(t) ==
    /\ pc[t] = "sending"
    /\ it' = [it EXCEPT ![t] = websocket]
    /\ pc' = [pc EXCEPT ![t] =
                IF \E u \in Tasks \ {t} : pc[u] = "recv" /\ it[u] = websocket
                THEN "raised" ELSE "recv"]
    /\ UNCHANGED <<ctx, session, websocket, sid, sockState, sent, arrived, nread, stdout>>
    /\ UNCHANGED <<control, attempts>>

\* variant: the iterator yields the newest frame first
NewestFrame(s) == arrived[s][Len(arrived[s])]

\* the frame the iterator yields next
NextFrame(s) == arrived[s][nread[s] + 1]

\* variant: the loop breaks after dispatching a terminal stream phase
RecvFrameBreakOnTerminal(t) ==
    /\ pc[t] = "recv"
    /\ nread[it[t]] < Len(arrived[it[t]])
    /\ LET r == LoopBody(NextFrame(it[t])) IN
         /\ stdout' = stdout \o Tag(it[t], r.out)
         /\ pc' = [pc EXCEPT ![t] =
                     IF r.escaped THEN "raised"
                     ELSE IF IsTerminal(NextFrame(it[t])) THEN "returned"
                     ELSE "recv"]
    /\ nread' = [nread EXCEPT ![it[t]] = @ + 1]
    /\ UNCHANGED <<ctx, session, websocket, sid, it, sockState, sent, arrived>>
    /\ UNCHANGED <<control, attempts>>

\* variant: the dispatcher remembers the frame it dispatched last and
\* prints nothing for a frame equal to it
RecvFrameRemembering(t) ==
    /\ pc[t] = "recv"
    /\ nread[it[t]] < Len(arrived[it[t]])
    /\ LET r == LoopBody(NextFrame(it[t]))
           repeated == /\ nread[it[t]] > 0
                       /\ arrived[it[t]][nread[it[t]]] = NextFrame(it[t])
       IN
         /\ stdout' = stdout \o Tag(it[t], IF repeated THEN <<>> ELSE r.out)
         /\ pc' = [pc EXCEPT ![t] = IF r.escaped THEN "raised" ELSE "recv"]
    /\ nread' = [nread EXCEPT ![it[t]] = @ + 1]
    /\ UNCHANGED <<ctx, session, websocket, sid, it, sockState, sent, arrived>>
    /\ UNCHANGED <<control, attempts>>

\* variant: the loop enforces the phase order: a partial phase that no
\* start phase precedes on the connection raises out of the loop
RecvFrameStrictOrder(t) ==
    /\ pc[t] = "recv"
    /\ nread[it[t]] < Len(arrived[it[t]])
    /\ LET r == LoopBody(NextFrame(it[t]))
           early == /\ IsPhase(NextFrame(it[t]), "partial")
                    /\ \A i \in 1..nread[it[t]] :
                          ~IsPhase(arrived[it[t]][i], "start")
       IN
         /\ stdout' = stdout \o Tag(it[t], r.out)
         /\ pc' = [pc EXCEPT ![t] =
                     IF r.escaped \/ early THEN "raised" ELSE "recv"]
    /\ nread' = [nread EXCEPT ![it[t]] = @ + 1]
    /\ UNCHANGED <<ctx, session, websocket, sid, it, sockState, sent, arrived>>
    /\ UNCHANGED <<control, attempts>>

\* one iteration of the receive loop
RecvFrame(t) ==
    /\ pc[t] = "recv"
    /\ nread[it[t]] < Len(arrived[it[t]])
    /\ LET r == LoopBody(NextFrame(it[t])) IN
         /\ stdout' = stdout \o Tag(it[t], r.out)
         /\ pc' = [pc EXCEPT ![t] = IF r.escaped THEN "raised" ELSE "recv"]
    /\ nread' = [nread EXCEPT ![it[t]] = @ + 1]
    /\ UNCHANGED <<ctx, session, websocket, sid, it, sockState, sent, arrived>>
    /\ UNCHANGED <<control, attempts>>

\* the iterator ends: the connection is closed and its buffer is drained
LoopEnd(t) ==
    /\ pc[t] = "recv"
    /\ nread[it[t]] = Len(arrived[it[t]])
    /\ sockState[it[t]] \in Closed
    /\ pc' = [pc EXCEPT ![t] =
                IF sockState[it[t]] = "closed_ok" THEN "returned" ELSE "raised"]
    /\ UNCHANGED <<ctx, session, websocket, sid, it, sockState, sent, arrived, nread, stdout>>
    /\ UNCHANGED <<control, attempts>>

\* the task is cancelled while suspended in an await: CancelledError is not
\* an Exception, no clause catches it
Cancel(t) ==
    /\ pc[t] \in {"connecting", "sending", "recv"}
    /\ pc' = [pc EXCEPT ![t] = "cancelled"]
    /\ UNCHANGED <<ctx, session, websocket, sid, it, sockState, sent, arrived, nread, stdout>>
    /\ UNCHANGED <<control, attempts>>

\* the server sends a text frame
ServerSend(s, f) ==
    /\ sockState[s] = "open"
    /\ arrived' = [arrived EXCEPT ![s] = Append(@, f)]
    /\ UNCHANGED <<ctx, session, websocket, pc, sid, it, sockState, sent, nread, stdout>>
    /\ UNCHANGED <<control, attempts>>

\* the server closes the connection, with a normal or an abnormal code
ServerClose(s, how) ==
    /\ sockState[s] = "open"
    /\ sockState' = [sockState EXCEPT ![s] = how]
    /\ UNCHANGED <<ctx, session, websocket, pc, sid, it, arrived, sent, nread, stdout>>
    /\ UNCHANGED <<control, attempts>>

\* the managed block is over when no call is running
BlockOver == \A t \in Tasks : pc[t] \in Finished \cup {"idle"}

\* websocket.close() of the held connection
CloseHeld ==
    IF websocket # NoSock /\ sockState[websocket] = "open"
    THEN [sockState EXCEPT ![websocket] = "closed_ok"]
    ELSE sockState

\* __aexit__: both closes run
Aexit ==
    /\ ctx = "entered"
    /\ BlockOver
    /\ ctx' = "exited"
    /\ session' = "closed"
    /\ sockState' = CloseHeld
    /\ UNCHANGED <<websocket, pc, sid, it, sent, arrived, nread, stdout>>
    /\ UNCHANGED <<control, attempts>>

\* __aexit__: session.close() raises and the method is left at line 55
AexitSessionCloseFails ==
    /\ ctx = "entered"
    /\ BlockOver
    /\ ctx' = "exited"
    /\ session' = "close_failed"
    /\ UNCHANGED <<websocket, pc, sid, it, sockState, sent, arrived, nread, stdout>>
    /\ UNCHANGED <<control, attempts>>

Next ==
    \/ Aenter
    \/ \E t \in Tasks, session_id \in SessionIds : Call(t, session_id)
    \/ \E t \in Tasks : ConnectFail(t)
    \/ \E t \in Tasks : Connect(t)
    \/ \E t \in Tasks : ConnectPeerClosed(t)
    \/ \E t \in Tasks : EnterLoop(t)
    \/ \E t \in Tasks : RecvFrame(t)
    \/ \E t \in Tasks : LoopEnd(t)
    \/ \E t \in Tasks : Cancel(t)
    \/ \E s \in Tasks, f \in Frames :
          TotalFrames < MaxFrames /\ ServerSend(s, f)
    \/ \E s \in Tasks, how \in Closed : ServerClose(s, how)
    \/ Aexit
    \/ AexitSessionCloseFails

Spec == Init /\ [][Next]_vars

(***************************************************************************)
(* One call of connect_websocket and its receive loop, with every kind of  *)
(* frame.                                                                  *)
(***************************************************************************)
NextLoop ==
    \/ Aenter
    \/ \E session_id \in SessionIds : Call("t1", session_id)
    \/ Connect("t1")
    \/ EnterLoop("t1")
    \/ RecvFrame("t1")
    \/ LoopEnd("t1")
    \/ Cancel("t1")
    \/ \E f \in LoopFrames :
          TotalFrames < MaxLoopFrames /\ ServerSend("t1", f)
    \/ \E how \in Closed : ServerClose("t1", how)

SpecLoop == Init /\ [][NextLoop]_vars

(***************************************************************************)
(* The dispatcher on a stream of claude_stream envelopes: the receive loop *)
(* of an open, subscribed connection on which a sequence of frames has     *)
(* arrived.                                                                *)
(***************************************************************************)
StreamFrames ==
    {StreamFrame(Phase("start")),
     StreamFrame(Phase("partial")),
     StreamFrame(PhaseWith("partial", "")),
     StreamFrame(PhaseWith("partial", "ab")),
     StreamFrame(PhaseWith("partial", "cd")),
     StreamFrame(Phase("complete")),
     StreamFrame(Phase("error")),
     StreamFrame(PhaseWith("error", "boom")),
     StreamFrame(Phase("tool_use")),
     StreamFrame(PhaseWith("tool_use", "ab")),
     StreamFrame(Str("x"))}

SeqsUpTo(S, n) == UNION {[1..k -> S] : k \in 0..n}

InitStream ==
    /\ ctx = "entered"
    /\ session = "open"
    /\ websocket = "t1"
    /\ pc = [t \in Tasks |-> IF t = "t1" THEN "recv" ELSE "idle"]
    /\ sid = [t \in Tasks |-> "A"]
    /\ it = [t \in Tasks |-> IF t = "t1" THEN "t1" ELSE NoSock]
    /\ sockState = [t \in Tasks |-> IF t = "t1" THEN "open" ELSE "unopened"]
    /\ sent = [t \in Tasks |-> IF t = "t1" THEN <<SubscribeMessage("A")>> ELSE <<>>]
    /\ \E fs \in SeqsUpTo(StreamFrames, MaxLen) :
         arrived = [t \in Tasks |-> IF t = "t1" THEN fs ELSE <<>>]
    /\ nread = [t \in Tasks |-> 0]
    /\ stdout = Tag("t1", <<Ev("connected", NoArg)>>)
    /\ server_url = DefaultUrl
    /\ ws_url = WsUrl(DefaultUrl)
    /\ attempts = [t \in Tasks |-> IF t = "t1" THEN 1 ELSE 0]
    /\ hcall = NoCall
    /\ requests = <<>>
    /\ outcome = NoOutcome

NextStream == RecvFrame("t1")

SpecStream == InitStream /\ [][NextStream]_vars

(***************************************************************************)
(* The control plane beside one call of connect_websocket.  A control-     *)
(* plane call hands one request to the session and is suspended until the  *)
(* response or a transport error; the receive loop runs in between.        *)
(***************************************************************************)
\* an operation is called: it builds the request and awaits the response
HttpCall(op, args) ==
    /\ ctx = "entered"
    /\ hcall.pc \in {"idle", "done"}
    /\ hcall.n < MaxCalls
    /\ hcall' = [pc |-> "awaiting", op |-> op, args |-> args, n |-> hcall.n + 1,
                 resp |-> NoResponse]
    /\ requests' = Append(requests, RequestOf(server_url, op, args))
    /\ outcome' = NoOutcome
    /\ UNCHANGED <<ctx, session, server_url, ws_url>>
    /\ UNCHANGED stream

\* the request fails in transport: aiohttp.ClientError leaves the operation
HttpTransportFail ==
    /\ hcall.pc = "awaiting"
    /\ hcall' = [hcall EXCEPT !.pc = "done"]
    /\ outcome' = Exc("ClientError", "")
    /\ UNCHANGED <<ctx, session, server_url, ws_url, requests>>
    /\ UNCHANGED stream

\* the response arrives: the status test, response.json() and the return
\* or raise
HttpResponse(resp) ==
    /\ hcall.pc = "awaiting"
    /\ hcall' = [hcall EXCEPT !.pc = "done", !.resp = resp]
    /\ outcome' = Finish(hcall.op, resp)
    /\ UNCHANGED <<ctx, session, server_url, ws_url, requests>>
    /\ UNCHANGED stream

\* what the server sends in SpecControl
ControlFrames == {StatusFrame}

NextControl ==
    \/ Aenter
    \/ \E op \in Ops : \E args \in ArgsFor(op) : HttpCall(op, args)
    \/ HttpTransportFail
    \/ \E resp \in Responses : HttpResponse(resp)
    \/ Call("t1", "A")
    \/ ConnectFail("t1")
    \/ Connect("t1")
    \/ EnterLoop("t1")
    \/ RecvFrame("t1")
    \/ \E f \in ControlFrames : TotalFrames < MaxFrames /\ ServerSend("t1", f)

SpecControl == Init /\ [][NextControl]_vars

(***************************************************************************)
(* What the claims speak of.                                               *)
(***************************************************************************)
\* the lines printed for connection s, without the connection tag
LinesOf(s) ==
    LET mine == SelectSeq(stdout, LAMBDA e : e.conn = s)
    IN [i \in 1..Len(mine) |-> Ev(mine[i].ev, mine[i].arg)]
SessionEventsIn(lines) == SelectSeq(lines, LAMBDA e : e.ev \in SessionKinds)
SessionEventsOf(s) == SessionEventsIn(LinesOf(s))
\* the lines the step has printed
NewLines == SubSeq(stdout', Len(stdout) + 1, Len(stdout'))
Untag(lines) == [i \in 1..Len(lines) |-> Ev(lines[i].ev, lines[i].arg)]

\* a partial phase that carries a string content
IsPartialOf(fr) ==
    IsPhase(fr, "partial") /\ Has(StreamData(fr), "content")
      /\ StreamData(fr).f["content"].k = "str"
ContentOf(fr) == StreamData(fr).f["content"]

RECURSIVE ConcatAll(_)
ConcatAll(strs) ==
    IF strs = <<>> THEN "" ELSE Head(strs).v \o ConcatAll(Tail(strs))

\* the frame sequence start, partial(c1), ..., partial(cn), complete
IsOneResponse(fs) ==
    /\ Len(fs) >= 2
    /\ IsPhase(fs[1], "start")
    /\ IsPhase(fs[Len(fs)], "complete")
    /\ \A i \in 2..(Len(fs) - 1) : IsPartialOf(fs[i])
PartialContents(fs) == [i \in 1..(Len(fs) - 2) |-> ContentOf(fs[i + 1])]
Incrementals(contents) == [i \in 1..Len(contents) |-> Ev("incremental", contents[i])]
ArgsOf(events) == [i \in 1..Len(events) |-> events[i].arg]
Dispatched(s) == nread[s] = Len(arrived[s])

\* C9 as stated: for start, partial(c1), ..., partial(cn), complete the
\* session events are started, incremental(c1), ..., incremental(cn),
\* complete, and the incremental contents concatenate to c1 ++ ... ++ cn.
C9_OneEventPerPartial ==
    \A s \in Tasks :
      (IsOneResponse(arrived[s]) /\ Dispatched(s)) =>
        LET cs == PartialContents(arrived[s]) IN
        /\ SessionEventsOf(s) =
             <<Ev("started", NoArg)>> \o Incrementals(cs) \o <<Ev("complete", NoArg)>>
        /\ ConcatAll(ArgsOf(SelectSeq(SessionEventsOf(s),
                                      LAMBDA e : e.ev = "incremental")))
             = ConcatAll(cs)

\* C9 (amended): for start, partial(c1), ..., partial(cn), complete the
\* session events are started, then incremental(ci) for each non-empty ci
\* in order (an empty ci prints nothing), then complete; the incremental
\* contents concatenate to c1 ++ ... ++ cn with nothing added.
C9_ResponseEvents ==
    \A s \in Tasks :
      (IsOneResponse(arrived[s]) /\ Dispatched(s)) =>
        LET cs == PartialContents(arrived[s]) IN
        /\ SessionEventsOf(s) =
             <<Ev("started", NoArg)>>
               \o Incrementals(SelectSeq(cs, LAMBDA c : c.v # ""))
               \o <<Ev("complete", NoArg)>>
        /\ ConcatAll(ArgsOf(SelectSeq(SessionEventsOf(s),
                                      LAMBDA e : e.ev = "incremental")))
             = ConcatAll(cs)

\* a response with two non-empty partials and one with an empty partial
\* have been dispatched to the end
C9_Witness ==
    /\ Dispatched("t1")
    /\ IsOneResponse(arrived["t1"])
    /\ Len(arrived["t1"]) = 4
    /\ ContentOf(arrived["t1"][2]) = Str("ab")
    /\ ContentOf(arrived["t1"][3]) = Str("cd")

\* the receive loop of connection s takes its next frame in this step
Takes(s) == nread'[s] = nread[s] + 1
Taken(s) == arrived[s][nread[s] + 1]
PhaseOf(d) == IF IsDict(d) THEN Get(d, "type", None) ELSE None
ContentOr(d, default) == IF Has(d, "content") THEN d.f["content"] ELSE default
KnownPhases == {Str("start"), Str("partial"), Str("complete"), Str("error")}

\* the Level-2 table as the claim states it
ClaimedEvent(d) ==
    CASE PhaseOf(d) = Str("start") -> Ev("started", NoArg)
      [] PhaseOf(d) = Str("partial") -> Ev("incremental", ContentOr(d, Str("")))
      [] PhaseOf(d) = Str("complete") -> Ev("complete", NoArg)
      [] PhaseOf(d) = Str("error") -> Ev("response_error", ContentOr(d, Str("")))
      [] OTHER -> Ev("generic", ContentOr(d, d))

\* C10 as stated: every claude_stream envelope produces exactly one session
\* event, chosen by its phase type; a partial gives incremental-content for
\* every content value, empty or absent included.
C10_OneEventPerEnvelope ==
    [][\A s \in Tasks :
         (Takes(s) /\ IsStreamEnvelope(Taken(s))) =>
           SessionEventsIn(Untag(NewLines)) = <<ClaimedEvent(StreamData(Taken(s)))>>
      ]_vars

\* C10 (amended): a claude_stream envelope whose data is an object produces
\* the one session event of its phase type (start: response-started,
\* complete: response-complete, error: response-error carrying content or
\* '', other: generic carrying content if present, else the payload), but a
\* partial produces incremental-content only when its content is non-empty
\* and nothing when it is empty or absent; data that is not an object
\* produces no session event (the handler error is logged).
C10_Classification ==
    [][\A s \in Tasks :
         (Takes(s) /\ IsStreamEnvelope(Taken(s))) =>
           LET d == StreamData(Taken(s))
               events == SessionEventsIn(Untag(NewLines))
           IN /\ ~IsDict(d) =>
                   /\ events = <<>>
                   /\ Untag(NewLines) = <<Ev("log_handler_error", NoArg)>>
              /\ (IsDict(d) /\ PhaseOf(d) = Str("partial")) =>
                   IF Has(d, "content") /\ d.f["content"] # Str("")
                   THEN events = <<Ev("incremental", d.f["content"])>>
                   ELSE events = <<>>
              /\ (IsDict(d) /\ PhaseOf(d) # Str("partial")) =>
                   events = <<ClaimedEvent(d)>>
              /\ IsDict(d) => Untag(NewLines) = events
      ]_vars

\* every kind of phase has been dispatched: an empty partial, an error
\* without content and an unknown phase without content among them
C10_Witness ==
    LET done == SubSeq(arrived["t1"], 1, nread["t1"])
        Seen(fr) == \E i \in 1..Len(done) : done[i] = fr
    IN /\ Seen(StreamFrame(PhaseWith("partial", "")))
       /\ Seen(StreamFrame(Phase("error")))
       /\ Seen(StreamFrame(Phase("tool_use")))
       /\ Seen(StreamFrame(PhaseWith("partial", "ab")))

\* C1 as stated: once a claude_stream envelope of phase complete or error
\* has been dispatched the receive loop is over: a call still in the loop
\* has dispatched no terminal phase.
C1_TerminalEndsLoop ==
    \A t \in Tasks :
      pc[t] = "recv" =>
        \A i \in 1..nread[it[t]] : ~IsTerminal(arrived[it[t]][i])

\* C1 (amended): a claude_stream envelope of phase complete or error does
\* not end the receive loop: the call stays in the loop after dispatching
\* it, and it leaves the loop only when the connection has closed and every
\* frame that arrived has been dispatched (returning after a normal close,
\* raising after an abnormal one), or when the task is cancelled.
C1_LoopEndsOnlyOnClose ==
    [][\A t \in Tasks :
         pc[t] = "recv" =>
           /\ Takes(it[t]) => pc'[t] = "recv"
           /\ pc'[t] \in {"returned", "raised"} =>
                /\ sockState[it[t]] \in Closed
                /\ Dispatched(it[t])
                /\ pc'[t] = "returned" <=> sockState[it[t]] = "closed_ok"
      ]_vars

\* a terminal phase was dispatched, a later frame was dispatched after it,
\* and the call is still receiving on the open connection
C1_Witness ==
    /\ pc["t1"] = "recv"
    /\ sockState["t1"] = "open"
    /\ \E i \in 1..nread["t1"] : i < nread["t1"] /\ IsTerminal(arrived["t1"][i])

\* C2: whenever a call of connect_websocket that opened a connection has
\* finished, by return, error or cancellation, that connection is closed.
C2_FinishedMeansClosed ==
    \A t \in Tasks :
      (pc[t] \in Finished /\ sockState[t] # "unopened") => sockState[t] \in Closed

\* C3: after __aexit__ has run the HTTP session is closed (its close was at
\* least attempted) and every connection opened through the client is
\* closed, also when closing the HTTP session failed.
C3_ExitClosesAll ==
    ctx = "exited" =>
      /\ session \in {"closed", "close_failed"}
      /\ \A s \in Tasks : sockState[s] # "open"

\* C6: at most one connection opened by the client is open at any moment,
\* and an open one is the one held in self.websocket.
C6_AtMostOneOpen ==
    /\ Cardinality({s \in Tasks : sockState[s] = "open"}) <= 1
    /\ \A s \in Tasks : sockState[s] = "open" => websocket = s

\* the task whose receive loop iterates connection s stays in the loop
StaysInLoop(s) == \A t \in Tasks : (pc[t] = "recv" /\ it[t] = s) => pc'[t] = "recv"

\* C4: a frame that fails JSON decoding is discarded: the step prints the
\* parse-failure log line and no session event, nothing leaves the loop
\* (the call stays in it), and the connection is left as it was.
C4_BadJsonDiscarded ==
    [][\A s \in Tasks :
         (Takes(s) /\ ~Taken(s).json) =>
           /\ Untag(NewLines) = <<Ev("log_parse_error", NoArg)>>
           /\ SessionEventsIn(Untag(NewLines)) = <<>>
           /\ StaysInLoop(s)
           /\ sockState' = sockState
      ]_vars

\* an undecodable frame was taken, the frame after it was dispatched to a
\* session event, and the call is still receiving on the open connection
C4_Witness ==
    /\ pc["t1"] = "recv"
    /\ sockState["t1"] = "open"
    /\ nread["t1"] >= 2
    /\ arrived["t1"][1] = Garbage
    /\ arrived["t1"][2] = StatusFrame
    /\ SessionEventsOf("t1") = <<Ev("status", Str("running"))>>

\* a decoded frame on which handle_message raises: a value that is not an
\* object, or a status, error or claude_stream envelope without data
IsHandlerFault(fr) ==
    /\ fr.json
    /\ \/ ~IsDict(fr.val)
       \/ /\ Get(fr.val, "type", None) \in {Str("status"), Str("error"), Str("claude_stream")}
          /\ "data" \notin DOMAIN fr.val.f

\* C5: an exception raised by handle_message for one decoded frame is caught
\* in the loop: the step prints the handler-error log line and no session
\* event, the call stays in the loop, and the connection is left as it was.
C5_HandlerErrorCaught ==
    [][\A s \in Tasks :
         (Takes(s) /\ IsHandlerFault(Taken(s))) =>
           /\ Untag(NewLines) = <<Ev("log_handler_error", NoArg)>>
           /\ StaysInLoop(s)
           /\ sockState' = sockState
      ]_vars

\* a status envelope without data and a non-object were taken, the frame
\* after them was dispatched, and the call is still receiving
C5_Witness ==
    /\ pc["t1"] = "recv"
    /\ sockState["t1"] = "open"
    /\ nread["t1"] = 3
    /\ arrived["t1"][1] = StatusNoData
    /\ arrived["t1"][2] = Json(Arr)
    /\ arrived["t1"][3] = StatusFrame
    /\ SessionEventsOf("t1") = <<Ev("status", Str("running"))>>

\* C7: on every connection opened by connect_websocket(session_id) exactly
\* one frame has been passed to send, it is the subscribe message with the
\* session_id of the call, and no frame of a connection is dispatched
\* before it; a connection never opened has sent nothing.
C7_OneSubscribeFirst ==
    \A s \in Tasks :
      /\ sockState[s] # "unopened" =>
           sent[s] = <<Json(Obj([type |-> Str("subscribe"),
                                 session_id |-> Str(sid[s])]))>>
      /\ sockState[s] = "unopened" => (sent[s] = <<>> /\ nread[s] = 0)
      /\ nread[s] > 0 => Len(sent[s]) = 1

\* both calls have subscribed, to different sessions, and frames of the
\* second connection have been dispatched
C7_Witness ==
    /\ sid["t1"] = "A"
    /\ sid["t2"] = "B"
    /\ sockState["t1"] # "unopened"
    /\ nread["t2"] >= 1

RECURSIVE ImageUpTo(_, _)
\* the lines of the first n frames of connection s, frame by frame
ImageUpTo(s, n) ==
    IF n = 0 THEN <<>> ELSE ImageUpTo(s, n - 1) \o LoopBody(arrived[s][n]).out

\* C8: per connection, frames are dispatched in arrival order and one at a
\* time: the lines printed for a connection are the concatenation, in
\* arrival order, of the lines of the frames taken so far, and no two
\* calls receive on the same connection.
C8_ArrivalOrder ==
    \A s \in Tasks :
      /\ LinesOf(s) =
           (IF sockState[s] = "unopened" THEN <<>> ELSE <<Ev("connected", NoArg)>>)
             \o ImageUpTo(s, nread[s])
      /\ Cardinality({t \in Tasks : pc[t] = "recv" /\ it[t] = s}) <= 1

\* two different frames of one connection were dispatched, each to its own
\* session event, while the other call was running too
C8_Witness ==
    /\ nread["t2"] = 2
    /\ arrived["t2"] = <<StatusFrame, StreamFrame(Phase("complete"))>>
    /\ SessionEventsOf("t2") = <<Ev("status", Str("running")), Ev("complete", NoArg)>>
    /\ pc["t1"] = "recv"

(***************************************************************************)
(* The dispatcher on a sequence of envelopes of every Level-1 kind.        *)
(***************************************************************************)
ErrorFrame == Json(Obj([type |-> Str("error"), data |-> Obj([error |-> Str("bad")])]))
EnvelopeFrames ==
    {StatusFrame, StatusNoData, ErrorFrame,
     Json(Obj([type |-> Str("error")])),
     StreamFrame(Phase("start")),
     StreamFrame(PhaseWith("partial", "ab")),
     StreamFrame(Phase("complete")),
     Json(Obj([type |-> Str("bogus")])),
     Json(Obj([type |-> Str("bogus"), data |-> Obj([status |-> Str("running")])])),
     Json(Obj([data |-> Obj([status |-> Str("running")])])),
     Json(Obj([type |-> None]))}

InitDispatch ==
    /\ ctx = "entered"
    /\ session = "open"
    /\ websocket = "t1"
    /\ pc = [t \in Tasks |-> IF t = "t1" THEN "recv" ELSE "idle"]
    /\ sid = [t \in Tasks |-> "A"]
    /\ it = [t \in Tasks |-> IF t = "t1" THEN "t1" ELSE NoSock]
    /\ sockState = [t \in Tasks |-> IF t = "t1" THEN "open" ELSE "unopened"]
    /\ sent = [t \in Tasks |-> IF t = "t1" THEN <<SubscribeMessage("A")>> ELSE <<>>]
    /\ \E fs \in SeqsUpTo(EnvelopeFrames, MaxEnv) :
         arrived = [t \in Tasks |-> IF t = "t1" THEN fs ELSE <<>>]
    /\ nread = [t \in Tasks |-> 0]
    /\ stdout = Tag("t1", <<Ev("connected", NoArg)>>)
    /\ server_url = DefaultUrl
    /\ ws_url = WsUrl(DefaultUrl)
    /\ attempts = [t \in Tasks |-> IF t = "t1" THEN 1 ELSE 0]
    /\ hcall = NoCall
    /\ requests = <<>>
    /\ outcome = NoOutcome

NextDispatch == RecvFrame("t1")

SpecDispatch == InitDispatch /\ [][NextDispatch]_vars

Level1Types == {Str("status"), Str("claude_stream"), Str("error")}
Level1Kinds == {"status", "terminal_error", "unknown"}
TypeOf(fr) == Get(fr.val, "type", None)
IsObject(fr) == fr.json /\ IsDict(fr.val)
HasDataField(fr, field) == Has(fr.val, "data") /\ Has(fr.val.f["data"], field)

\* C11: handle_message routes by the envelope's type only: a status
\* envelope prints one status-update line carrying data.status, an error
\* envelope one terminal-error line carrying data.error, a claude_stream
\* envelope prints what handle_claude_stream prints for its data and no
\* Level-1 line, and an envelope of any other type, a missing type
\* included, prints one unrecognized-envelope line carrying the type.
C11_Level1Routing ==
    [][\A s \in Tasks :
         (Takes(s) /\ IsObject(Taken(s))) =>
           LET fr == Taken(s)
               lines == Untag(NewLines)
           IN /\ (TypeOf(fr) = Str("status") /\ HasDataField(fr, "status")) =>
                   lines = <<Ev("status", fr.val.f["data"].f["status"])>>
              /\ (TypeOf(fr) = Str("error") /\ HasDataField(fr, "error")) =>
                   lines = <<Ev("terminal_error", fr.val.f["data"].f["error"])>>
              /\ (IsStreamEnvelope(fr) /\ IsDict(StreamData(fr))) =>
                   /\ lines = HandleClaudeStream(StreamData(fr)).out
                   /\ \A i \in 1..Len(lines) : lines[i].ev \notin Level1Kinds
              /\ TypeOf(fr) \notin Level1Types =>
                   lines = <<Ev("unknown", TypeOf(fr))>>
      ]_vars

\* a status envelope and then an error envelope have been dispatched, each
\* to its own event
C11_Witness ==
    /\ nread["t1"] = 2
    /\ arrived["t1"] = <<StatusFrame, ErrorFrame>>
    /\ SessionEventsOf("t1") =
         <<Ev("status", Str("running")), Ev("terminal_error", Str("bad"))>>

\* C12: an envelope whose type is not status, claude_stream or error
\* prints exactly one diagnostic line and leaves the call in the receive
\* loop with the connection as it was, so that the envelope after it is
\* dispatched.
C12_UnknownTypeNotFatal ==
    [][\A s \in Tasks :
         (Takes(s) /\ IsObject(Taken(s)) /\ TypeOf(Taken(s)) \notin Level1Types) =>
           /\ Len(NewLines) = 1
           /\ NewLines[1].ev = "unknown"
           /\ StaysInLoop(s)
           /\ sockState' = sockState
      ]_vars

\* a bogus envelope was dispatched to one diagnostic line and the status
\* envelope after it to its event
C12_Witness ==
    /\ nread["t1"] = 2
    /\ arrived["t1"] = <<Json(Obj([type |-> Str("bogus")])), StatusFrame>>
    /\ LinesOf("t1") =
         <<Ev("connected", NoArg), Ev("unknown", Str("bogus")),
           Ev("status", Str("running"))>>
    /\ pc["t1"] = "recv"

\* C13: stream phases in any order are handled: for every sequence of
\* phase types, whatever was dispatched before it, a claude_stream envelope
\* whose data is an object is dispatched without a handler error to what
\* handle_claude_stream prints for it alone, the call stays in the receive
\* loop and the connection is left as it was.
C13_AnyPhaseOrder ==
    [][\A s \in Tasks :
         (Takes(s) /\ IsStreamEnvelope(Taken(s)) /\ IsDict(StreamData(Taken(s)))) =>
           /\ \A i \in 1..Len(NewLines) :
                NewLines[i].ev \notin {"log_handler_error", "log_parse_error"}
           /\ Untag(NewLines) = HandleClaudeStream(StreamData(Taken(s))).out
           /\ StaysInLoop(s)
           /\ sockState' = sockState
      ]_vars

\* a partial before any start, then start, complete and a partial after
\* complete have all been dispatched, and the call is still receiving
C13_Witness ==
    /\ pc["t1"] = "recv"
    /\ nread["t1"] = 4
    /\ arrived["t1"] =
         <<StreamFrame(PhaseWith("partial", "ab")), StreamFrame(Phase("start")),
           StreamFrame(Phase("complete")), StreamFrame(PhaseWith("partial", "cd"))>>
    /\ SessionEventsOf("t1") =
         <<Ev("incremental", Str("ab")), Ev("started", NoArg),
           Ev("complete", NoArg), Ev("incremental", Str("cd"))>>

\* the control-plane call has ended on a response of the server
Answered == hcall.pc = "done" /\ hcall.resp # NoResponse
ErrorCarrying == {"start_session", "get_running_sessions", "cancel_session"}
\* a body {error: E} with a string E
IsErrorBody(body) ==
    body.json /\ Has(body.val, "error") /\ body.val.f["error"].k = "str"
ErrorOf(body) == body.val.f["error"].v
FailurePrefix(op) ==
    CASE op = "start_session" -> "Failed to start session: "
      [] op = "get_running_sessions" -> "Failed to get running sessions: "
      [] op = "cancel_session" -> "Failed to cancel session: "

\* C14: on a non-200 response whose body is {error: E}, start_session,
\* get_running_sessions and cancel_session raise Exception with the
\* operation's prefix followed by E verbatim; check_health raises Exception
\* 'Server is not healthy' on a non-200 response with any body.
C14_ServerErrorVerbatim ==
    (Answered /\ hcall.resp.status # 200) =>
      /\ (hcall.op \in ErrorCarrying /\ IsErrorBody(hcall.resp.body)) =>
           outcome = Exc("Exception",
                         FailurePrefix(hcall.op) \o ErrorOf(hcall.resp.body))
      /\ hcall.op = "check_health" =>
           outcome = Exc("Exception", "Server is not healthy")

\* cancel_session was answered 500 {error: 'no such session'} and raised
\* with that text in its message
C14_Witness ==
    /\ Answered
    /\ hcall.op = "cancel_session"
    /\ hcall.resp = [status |-> 500,
                     body |-> Json(Obj([error |-> Str("no such session")]))]
    /\ outcome.msg = "Failed to cancel session: no such session"

\* C15: on a non-200 response whose body has no string error field or is
\* not JSON, start_session, get_running_sessions and cancel_session raise
\* the same exception as for a body that has one, Exception, never an
\* exception of another class that comes from reading the body.
C15_GenericOnBadBody ==
    (/\ Answered
     /\ hcall.resp.status # 200
     /\ hcall.op \in ErrorCarrying
     /\ ~IsErrorBody(hcall.resp.body)) =>
      /\ outcome.kind = "raised"
      /\ outcome.exc = "Exception"

\* C16: cancel_session returns a value only on a 200 response and the value
\* is then data.cancelled of the body; on every non-200 response, whatever
\* the body, it raises.
C16_CancelNeverSilent ==
    (Answered /\ hcall.op = "cancel_session") =>
      /\ outcome.kind \in {"returned", "raised"}
      /\ outcome.kind = "returned" =>
           /\ hcall.resp.status = 200
           /\ HasDataField(hcall.resp.body, "cancelled")
           /\ outcome.value = hcall.resp.body.val.f["data"].f["cancelled"]
      /\ hcall.resp.status # 200 => outcome.kind = "raised"

\* cancel_session was answered 500 with a body that says cancelled: false,
\* and it raised
C16_Witness ==
    /\ Answered
    /\ hcall.op = "cancel_session"
    /\ hcall.args = <<"B">>
    /\ hcall.resp = [status |-> 500,
                     body |-> Json(Obj([data |-> Obj([cancelled |-> Bool(FALSE)])]))]
    /\ outcome.kind = "raised"

\* C17: the request of start_session(project_path, prompt, model) is a POST
\* to /api/claude/execute under the base URL whose JSON body is exactly
\* that triple, and on a 200 response with data.session_id = S the call
\* returns S.
C17_StartSessionRoundTrip ==
    (hcall.op = "start_session" /\ hcall.pc # "idle") =>
      /\ requests[Len(requests)] =
           [method |-> "POST", base |-> server_url, path |-> "/api/claude/execute",
            json |-> Obj([project_path |-> Str(hcall.args[1]),
                          prompt |-> Str(hcall.args[2]),
                          model |-> Str(hcall.args[3])])]
      /\ (/\ Answered
          /\ hcall.resp.status = 200
          /\ HasDataField(hcall.resp.body, "session_id")) =>
           outcome = Ret(hcall.resp.body.val.f["data"].f["session_id"])

\* start_session('/q', 'hi', 'm2') was answered 200 with session_id S1 and
\* returned S1
C17_Witness ==
    /\ Answered
    /\ hcall.op = "start_session"
    /\ hcall.args = <<"/q", "hi", "m2">>
    /\ hcall.resp.status = 200
    /\ outcome = Ret(Str("S1"))

\* C18: no operation retries.  Every control-plane call has handed exactly
\* one request to the session, a request is issued only by the step that
\* begins a call, and a call that has ended issues none; every call of
\* connect_websocket has made exactly one connection attempt, and when
\* websockets.connect fails the call raises in that step, with no further
\* attempt and self.websocket as it was.
C18_NoRetry ==
    [][/\ Len(requests') = hcall'.n
       /\ requests' # requests =>
            /\ hcall.pc # "awaiting"
            /\ hcall'.pc = "awaiting"
            /\ hcall'.n = hcall.n + 1
            /\ Len(requests') = Len(requests) + 1
       /\ hcall.pc = "awaiting" => hcall'.pc \in {"awaiting", "done"}
       /\ \A t \in Tasks :
            /\ attempts'[t] = IF pc'[t] = "idle" THEN 0 ELSE 1
            /\ (pc[t] = "connecting" /\ pc'[t] = "raised"
                  /\ sockState'[t] = "unopened") =>
                 /\ websocket' = websocket
                 /\ sockState' = sockState
      ]_vars

\* websockets.connect failed after one attempt and left no connection, and
\* two control-plane calls, the second failing in transport, issued two
\* requests
C18_Witness ==
    /\ pc["t1"] = "raised"
    /\ attempts["t1"] = 1
    /\ websocket = NoSock
    /\ hcall.n = 2
    /\ hcall.pc = "done"
    /\ Len(requests) = 2
    /\ outcome = Exc("ClientError", "")

\* C19: dispatching a frame leaves server_url, ws_url, session and
\* websocket, and the control-plane call in progress, as they were, and
\* prints what the loop body prints for that frame alone, whatever was
\* dispatched before it.
C19_DispatcherStateless ==
    [][\A s \in Tasks :
         Takes(s) =>
           /\ UNCHANGED <<server_url, ws_url, session, websocket>>
           /\ UNCHANGED <<hcall, requests, outcome>>
           /\ Untag(NewLines) = LoopBody(Taken(s)).out
      ]_vars

\* two equal status envelopes were dispatched, each to its event, while a
\* control-plane call was awaiting its response
C19_Witness ==
    /\ hcall.pc = "awaiting"
    /\ hcall.op = "get_running_sessions"
    /\ nread["t1"] = 2
    /\ SessionEventsOf("t1") =
         <<Ev("status", Str("running")), Ev("status", Str("running"))>>

(***************************************************************************)
(* Construction: ClaudiaClient(server_url) in an environment.              *)
(***************************************************************************)
HttpsChars == HttpChars \o <<"s">>
TailChars == {"h", "t", "p", "a"}
\* what follows '://' in a base URL
Tails == UNION {[1..k -> TailChars] : k \in 1..MaxTail}
Urls == {scheme \o SchemeSep \o tail : scheme \in {HttpChars, HttpsChars}, tail \in Tails}
Envs == {EnvUnset, EnvSet(HttpsChars \o SchemeSep \o <<"a">>)}

\* before __init__ has run
InitUrl ==
    /\ ctx = "unbuilt"
    /\ session = "none"
    /\ websocket = NoSock
    /\ pc = [t \in Tasks |-> "idle"]
    /\ sid = [t \in Tasks |-> "A"]
    /\ it = [t \in Tasks |-> NoSock]
    /\ sockState = [t \in Tasks |-> "unopened"]
    /\ sent = [t \in Tasks |-> <<>>]
    /\ arrived = [t \in Tasks |-> <<>>]
    /\ nread = [t \in Tasks |-> 0]
    /\ stdout = <<>>
    /\ server_url = <<>>
    /\ ws_url = <<>>
    /\ attempts = [t \in Tasks |-> 0]
    /\ hcall = NoCall
    /\ requests = <<>>
    /\ outcome = NoOutcome

\* __init__(server_url) with CLAUDIA_SERVER_URL as env has it
Construct(arg, env) ==
    /\ ctx = "unbuilt"
    /\ ctx' = "new"
    /\ server_url' = ResolveUrl(arg, env)
    /\ ws_url' = WsUrl(ResolveUrl(arg, env))
    /\ session' = "none"
    /\ websocket' = NoSock
    /\ UNCHANGED <<pc, sid, it, sockState, sent, arrived, nread, stdout, attempts>>
    /\ UNCHANGED <<hcall, requests, outcome>>

NextUrl == \E arg \in Urls \cup {<<>>}, env \in Envs : Construct(arg, env)

SpecUrl == InitUrl /\ [][NextUrl]_vars

WssChars == WsChars \o <<"s">>
IsHttpsUrl(url) == SubSeq(url, 1, Len(HttpsChars \o SchemeSep)) = HttpsChars \o SchemeSep
\* what follows the scheme of a base URL: '://', host, port and path
AfterScheme(url) ==
    SubSeq(url, (IF IsHttpsUrl(url) THEN Len(HttpsChars) ELSE Len(HttpChars)) + 1,
           Len(url))

\* C20: the stream endpoint of a constructed client is its base URL with
\* the scheme alone rewritten (http to ws, https to wss) and '/ws'
\* appended: what follows the scheme is unchanged, also when it contains
\* 'http'.
C20_OnlySchemeRewritten ==
    ctx # "unbuilt" =>
      ws_url = (IF IsHttpsUrl(server_url) THEN WssChars ELSE WsChars)
                 \o AfterScheme(server_url) \o SlashWs

====
